---------------------------- MODULE Spec2Model ----------------------------
(***************************************************************************)
(* Model of pytket-offline-renderer.                                       *)
(*                                                                         *)
(*   - OfflineRenderer.render_circuit_as_html                              *)
(*     (src/pytket/extensions/offline_display/__init__.py, lines 36-73),   *)
(*     one action per statement of the method, with the working directory, *)
(*     the open file handles, the notebook's display output and a clock    *)
(*     as the environment it acts on;                                      *)
(*   - the module-level template loader                                    *)
(*     (PrefixLoader of ChoiceLoader [FileSystemLoader, base loader],      *)
(*     lines 80-89 of the same file and lines 33-42 of                     *)
(*     src/pytket/circuit/offline_display/__init__.py).                    *)
(***************************************************************************)
EXTENDS Integers, Sequences, FiniteSets, TLC

VARIABLES
    pc,          \* position of the current call in render_circuit_as_html ("idle": no call active)
    circuit,     \* argument `circuit` of the current / last call
    jupyter,     \* argument `jupyter` of the current / last call
    html,        \* local `html` (line 45); <<>> while unassigned
    fp,          \* fp.name, the absolute path of the temporary file (line 56); <<>> while unassigned
    exc,         \* exception in flight while the finally block runs ("none" if none)
    outcome,     \* how the last call ended: [kind, value]
    fs,          \* the filesystem: absolute path -> content on disk
    opened,      \* open file handles: absolute path -> buffered, unflushed data
    displays,    \* the notebook cell output: iframe sources displayed so far
    clock,       \* time, in the units of time.sleep
    hasIPython,  \* whether IPython.display can be imported in this environment
    log,         \* events of the current / last call, in order
    calls,       \* number of calls started
    pre,         \* the environment as it was when the current / last call started
    temps,       \* paths created by NamedTemporaryFile that are still on disk
    localFiles,  \* the package's override directories: set of <<directory, name>>
    baseFiles,   \* the base display module's templates: set of <<namespace, name>>
    lookup       \* the last template lookup: [template, result]

rvars == <<pc, circuit, jupyter, html, fp, exc, outcome, fs, opened, displays,
           clock, hasIPython, log, calls, pre, temps>>
lvars == <<localFiles, baseFiles, lookup>>
vars  == <<rvars, lvars>>

---------------------------------------------------------------------------
(* Bounds of the model *)

MaxCalls == 2
MaxFiles == 2
MaxCircuit == 1
MaxNames == 2

---------------------------------------------------------------------------
(* The renderer *)

\* time.sleep(5)
Delay == 5

\* os.getcwd(), as path components
CwdPath == <<"home", "notebooks">>

\* The names NamedTemporaryFile can draw in the working directory.
FileNames == {ToString(i) : i \in 1..MaxFiles}

\* dir=os.getcwd(): the absolute path of a file of the working directory
InCwd(n) == Append(CwdPath, n)

CwdPaths == {InCwd(n) : n \in FileNames}

\* Circuits; circuit 0 stands for one the base renderer cannot convert.
Circuits == 0..MaxCircuit

Convertible(c) == c # 0

\* CircuitRenderer.render_circuit_as_html of the base class: the HTML document
\* is a function of the circuit and of the inline-mode flag.
BaseRender(c, inline) ==
    <<"<div class=circuit>", ToString(c),
      IF inline THEN "inline" ELSE "standalone">>

\* A mutant of SuperRender: the caller's flag is passed through to the base class.
SuperRenderPassThrough(c, j) == BaseRender(c, j)

\* html = super().render_circuit_as_html(circuit, jupyter=False)
SuperRender(c, j) == BaseRender(c, FALSE)

\* A mutant of JupyterBranch: the notebook branch is taken whatever the flag.
JupyterBranchAlways(j) == TRUE

\* if jupyter:
JupyterBranch(j) == j

\* os.path.relpath(path) with the working directory as its start
RelPath(path) ==
    IF Len(path) >= Len(CwdPath) /\ SubSeq(path, 1, Len(CwdPath)) = CwdPath
    THEN SubSeq(path, Len(CwdPath) + 1, Len(path))
    ELSE <<"..">> \o path

\* A mutant of IframeSrc: the absolute path is used as the iframe source.
IframeSrcAbsolute(path) == <<".">> \o path

\* f'<iframe src="./{os.path.relpath(fp.name)}" ...'
IframeSrc(path) == <<".">> \o RelPath(path)

\* A mutant of Succ: the IPython import sits next to the display call.
SuccImportLate(p) ==
    CASE p = "render"  -> "create"
      [] p = "create"  -> "write"
      [] p = "write"   -> "close"
      [] p = "close"   -> "import"
      [] p = "import"  -> "display"
      [] p = "display" -> "sleep"
      [] p = "sleep"   -> "remove"
      [] OTHER         -> "idle"

\* The order of the statements of the jupyter branch.
Succ(p) ==
    CASE p = "render"  -> "import"
      [] p = "import"  -> "create"
      [] p = "create"  -> "write"
      [] p = "write"   -> "close"
      [] p = "close"   -> "display"
      [] p = "display" -> "sleep"
      [] p = "sleep"   -> "remove"
      [] OTHER         -> "idle"

\* The statements the try block covers.
InTry(p) == p = "display"

None == <<"None">>
NoOutcome == [kind |-> "none", value |-> <<>>]
Returned(v) == [kind |-> "return", value |-> v]
Raised(e) == [kind |-> "raise", value |-> <<e>>]

\* The state of the temporary file, as an event of the log records it.
Event(e, path, f, o, t) ==
    [ev |-> e, at |-> t,
     present |-> path \in DOMAIN f,
     content |-> IF path \in DOMAIN f THEN f[path] ELSE <<>>,
     open |-> path \in DOMAIN o]

Without(f, p) == [q \in DOMAIN f \ {p} |-> f[q]]
With(f, p, v) == [q \in DOMAIN f \cup {p} |-> IF q = p THEN v ELSE f[q]]

\* An exception raised by the statement at position p: inside the try block the
\* finally block runs first with the exception in flight; elsewhere it leaves
\* the method at once.
Raise(p, e) ==
    IF InTry(p)
    THEN /\ pc' = "sleep"
         /\ exc' = e
         /\ outcome' = outcome
    ELSE /\ pc' = "idle"
         /\ exc' = exc
         /\ outcome' = Raised(e)

RInit ==
    /\ pc = "unloaded"
    /\ circuit = 0
    /\ jupyter = FALSE
    /\ html = <<>>
    /\ fp = <<>>
    /\ exc = "none"
    /\ outcome = NoOutcome
    /\ \E other \in SUBSET CwdPaths : fs = [p \in other |-> <<"other">>]
    /\ opened = <<>>
    /\ displays = <<>>
    /\ clock = 0
    /\ hasIPython \in BOOLEAN
    /\ log = <<>>
    /\ calls = 0
    /\ pre = [fs |-> fs, displays |-> displays, clock |-> clock]
    /\ temps = {}

\* A mutant of TopLevelNeedsIPython: IPython.display is imported with the
\* other imports at the top of the module.
TopLevelImportsIPython == TRUE

\* Lines 17-30: the imports at the top of the module do not name IPython.
TopLevelNeedsIPython == FALSE

\* Lines 17-30 and 77-100: the module is imported and circuit_renderer =
\* OfflineRenderer(env) is constructed.
Construct ==
    /\ UNCHANGED lvars
    /\ pc = "unloaded"
    /\ pc' = IF TopLevelNeedsIPython /\ ~hasIPython THEN "import failed" ELSE "idle"
    /\ UNCHANGED <<circuit, jupyter, html, fp, exc, outcome, fs, opened, displays,
                   clock, hasIPython, log, calls, pre, temps>>

\* render_circuit_as_html(circuit, jupyter) is entered.
Call(c, j) ==
    /\ UNCHANGED lvars
    /\ pc = "idle"
    /\ calls < MaxCalls
    /\ pc' = "render"
    /\ circuit' = c
    /\ jupyter' = j
    /\ html' = <<>>
    /\ fp' = <<>>
    /\ exc' = "none"
    /\ outcome' = NoOutcome
    /\ log' = <<>>
    /\ calls' = calls + 1
    /\ pre' = [fs |-> fs, displays |-> displays, clock |-> clock]
    /\ UNCHANGED <<fs, opened, displays, clock, hasIPython, temps>>

\* Lines 45, 47 and 73: the HTML is generated; without the jupyter flag it is returned.
Render ==
    /\ UNCHANGED lvars
    /\ pc = "render"
    /\ IF ~Convertible(circuit)
       THEN /\ Raise("render", "RenderError")
            /\ html' = html
       ELSE /\ html' = SuperRender(circuit, jupyter)
            /\ exc' = exc
            /\ IF JupyterBranch(jupyter)
               THEN /\ pc' = Succ("render")
                    /\ outcome' = outcome
               ELSE /\ pc' = "idle"
                    /\ outcome' = Returned(html')
    /\ UNCHANGED <<circuit, jupyter, fp, fs, opened, displays, clock,
                   hasIPython, log, calls, pre, temps>>

\* Lines 50-54: from IPython.display import HTML, display
Import ==
    /\ UNCHANGED lvars
    /\ pc = "import"
    /\ IF hasIPython
       THEN /\ pc' = Succ("import")
            /\ UNCHANGED <<exc, outcome>>
       ELSE Raise("import", "ImportError")
    /\ UNCHANGED <<circuit, jupyter, html, fp, fs, opened, displays, clock,
                   hasIPython, log, calls, pre, temps>>

\* Lines 56-58: NamedTemporaryFile(mode="w", suffix=".html", delete=False, dir=os.getcwd())
\* creates an empty file under a name no file of the directory has, and
\* fails when it finds none.
Create ==
    /\ UNCHANGED lvars
    /\ pc = "create"
    /\ IF \E n \in FileNames : InCwd(n) \notin DOMAIN fs
       THEN \E n \in FileNames :
               /\ InCwd(n) \notin DOMAIN fs
               /\ fp' = InCwd(n)
               /\ fs' = With(fs, fp', <<>>)
               /\ opened' = With(opened, fp', <<>>)
               /\ temps' = temps \cup {fp'}
               /\ log' = Append(log, Event("create", fp', fs', opened', clock))
               /\ pc' = Succ("create")
               /\ UNCHANGED <<exc, outcome>>
       ELSE /\ Raise("create", "FileExistsError")
            /\ UNCHANGED <<fp, fs, opened, temps, log>>
    /\ UNCHANGED <<circuit, jupyter, html, displays, clock, hasIPython, calls, pre>>

\* Line 59: fp.write(html) buffers the text in the handle, or fails.
Write ==
    /\ UNCHANGED lvars
    /\ pc = "write"
    /\ \E ok \in BOOLEAN :
          IF ok
          THEN /\ opened' = With(opened, fp, opened[fp] \o html)
               /\ log' = Append(log, Event("write", fp, fs, opened', clock))
               /\ pc' = Succ("write")
               /\ UNCHANGED <<exc, outcome>>
          ELSE /\ Raise("write", "OSError")
               /\ UNCHANGED <<opened, log>>
    /\ UNCHANGED <<circuit, jupyter, html, fp, fs, displays, clock,
                   hasIPython, calls, pre, temps>>

\* Line 60: fp.close() flushes the buffer to disk and releases the handle; a
\* failing flush leaves what was written so far.
Close ==
    /\ UNCHANGED lvars
    /\ pc = "close"
    /\ \E k \in 0..Len(opened[fp]) :
          /\ fs' = With(fs, fp, fs[fp] \o SubSeq(opened[fp], 1, k))
          /\ opened' = Without(opened, fp)
          /\ IF k = Len(opened[fp])
             THEN /\ log' = Append(log, Event("close", fp, fs', opened', clock))
                  /\ pc' = Succ("close")
                  /\ UNCHANGED <<exc, outcome>>
             ELSE /\ Raise("close", "OSError")
                  /\ log' = log
    /\ UNCHANGED <<circuit, jupyter, html, fp, displays, clock,
                   hasIPython, calls, pre, temps>>

\* Lines 61-68: display(HTML('<iframe src="./<relative path>" ...>')) inside the
\* try block; the request succeeds and None is to be returned, or it raises.
Display ==
    /\ UNCHANGED lvars
    /\ pc = "display"
    /\ log' = Append(log, Event("display", fp, fs, opened, clock))
    /\ \E ok \in BOOLEAN :
          IF ok
          THEN /\ displays' = Append(displays, IframeSrc(fp))
               /\ pc' = Succ("display")
               /\ UNCHANGED <<exc, outcome>>
          ELSE /\ Raise("display", "DisplayError")
               /\ displays' = displays
    /\ UNCHANGED <<circuit, jupyter, html, fp, fs, opened, clock,
                   hasIPython, calls, pre, temps>>

\* Line 71: time.sleep(5) ends.
Sleep ==
    /\ UNCHANGED lvars
    /\ pc = "sleep"
    /\ clock' = clock + Delay
    /\ log' = Append(log, Event("delay", fp, fs, opened, clock'))
    /\ pc' = Succ("sleep")
    /\ UNCHANGED <<circuit, jupyter, html, fp, exc, outcome, fs, opened,
                   displays, hasIPython, calls, pre, temps>>

\* While the call sleeps, something else (the user, a cleaning job) removes
\* the temporary file from the working directory.
EnvRemove ==
    /\ UNCHANGED lvars
    /\ pc = "sleep"
    /\ fp \in DOMAIN fs
    /\ fs' = Without(fs, fp)
    /\ temps' = temps \ {fp}
    /\ log' = Append(log, Event("vanished", fp, fs', opened, clock))
    /\ UNCHANGED <<pc, circuit, jupyter, html, fp, exc, outcome, opened,
                   displays, clock, hasIPython, calls, pre>>

\* Line 72: os.remove(fp.name), the last statement of the finally block. When
\* it succeeds the method ends the way the try block left it: the exception
\* in flight goes on, or None is returned. When the file is missing it raises
\* FileNotFoundError, which is what leaves the method.
Remove ==
    /\ UNCHANGED lvars
    /\ pc = "remove"
    /\ pc' = "idle"
    /\ IF fp \in DOMAIN fs
       THEN /\ fs' = Without(fs, fp)
            /\ temps' = temps \ {fp}
            /\ log' = Append(log, Event("removed", fp, fs', opened, clock))
            /\ outcome' = IF exc = "none" THEN Returned(None) ELSE Raised(exc)
       ELSE /\ UNCHANGED <<fs, temps>>
            /\ log' = Append(log, Event("remove failed", fp, fs, opened, clock))
            /\ outcome' = Raised("FileNotFoundError")
    /\ UNCHANGED <<circuit, jupyter, html, fp, exc, opened, displays, clock,
                   hasIPython, calls, pre>>

---------------------------------------------------------------------------
(* The template loader *)

Names == {ToString(i) : i \in 1..MaxNames}

\* A lookup that finds nothing raises TemplateNotFound.
NotFound == <<"TemplateNotFound">>

\* The content of a file of an override directory, and of a template of the
\* base display module: the two tiers never hold the same text.
LocalContent(dir, name) == <<"local", dir, name>>
BaseContent(ns, name) == <<"base", ns, name>>

\* FileSystemLoader(searchpath=os.path.join(dirname, dir)).get_source
FileSystemGetSource(dir, name) ==
    IF <<dir, name>> \in localFiles THEN LocalContent(dir, name) ELSE NotFound

\* html_loader.get_source / js_loader.get_source of pytket.circuit.display
BaseGetSource(ns, name) ==
    IF <<ns, name>> \in baseFiles THEN BaseContent(ns, name) ELSE NotFound

\* A mutant of LoaderMapping: the base loader is tried before the override directory.
LoaderMappingBaseFirst ==
    [html |-> <<[kind |-> "base", key |-> "html"], [kind |-> "fs", key |-> "static"]>>,
     js   |-> <<[kind |-> "base", key |-> "js"], [kind |-> "fs", key |-> "dist"]>>]

\* loader = PrefixLoader({'html': ChoiceLoader([...]), 'js': ChoiceLoader([...])})
LoaderMapping ==
    [html |-> <<[kind |-> "fs", key |-> "static"], [kind |-> "base", key |-> "html"]>>,
     js   |-> <<[kind |-> "fs", key |-> "dist"], [kind |-> "base", key |-> "js"]>>]

GetSource(l, name) ==
    IF l.kind = "fs" THEN FileSystemGetSource(l.key, name)
                     ELSE BaseGetSource(l.key, name)

\* ChoiceLoader.get_source: the loaders are tried in order, a TemplateNotFound of
\* one is swallowed and the next is tried; TemplateNotFound when all miss.
RECURSIVE ChoiceGetSource(_, _)
ChoiceGetSource(loaders, name) ==
    IF loaders = <<>> THEN NotFound
    ELSE IF GetSource(Head(loaders), name) # NotFound
         THEN GetSource(Head(loaders), name)
         ELSE ChoiceGetSource(Tail(loaders), name)

\* PrefixLoader.get_source: the template is "<prefix>/<name>", here already
\* split at the delimiter; a template with no delimiter or with an unknown
\* prefix is not found.
PrefixGetSource(template) ==
    IF Len(template) # 2 \/ template[1] \notin DOMAIN LoaderMapping
    THEN NotFound
    ELSE ChoiceGetSource(LoaderMapping[template[1]], template[2])

Prefixes == {"html", "js", "css"}
Templates == {<<p, n>> : p \in Prefixes, n \in Names} \cup {<<n>> : n \in Names}

NoLookup == [template |-> <<>>, result |-> <<>>]

LIdle ==
    /\ localFiles = {}
    /\ baseFiles = {}
    /\ lookup = NoLookup

LInit ==
    /\ localFiles \in SUBSET ({"static", "dist"} \X Names)
    /\ baseFiles \in SUBSET ({"html", "js"} \X Names)
    /\ lookup = NoLookup

\* env.loader.get_source(env, template)
Lookup(t) ==
    /\ lookup' = [template |-> t, result |-> PrefixGetSource(t)]
    /\ UNCHANGED <<localFiles, baseFiles>>
    /\ UNCHANGED rvars

\* The renderer, constructed and at rest.
RIdle ==
    /\ pc = "idle"
    /\ circuit = 0
    /\ jupyter = FALSE
    /\ html = <<>>
    /\ fp = <<>>
    /\ exc = "none"
    /\ outcome = NoOutcome
    /\ fs = <<>>
    /\ opened = <<>>
    /\ displays = <<>>
    /\ clock = 0
    /\ hasIPython = FALSE
    /\ log = <<>>
    /\ calls = 0
    /\ pre = [fs |-> fs, displays |-> displays, clock |-> clock]
    /\ temps = {}

---------------------------------------------------------------------------
(* Specifications *)

Init == RInit /\ LIdle

Next ==
    \/ Construct
    \/ \E c \in Circuits, j \in BOOLEAN : Call(c, j)
    \/ Render
    \/ Import
    \/ Create
    \/ Write
    \/ Close
    \/ Display
    \/ Sleep
    \/ EnvRemove
    \/ Remove

Spec == Init /\ [][Next]_vars

LoaderInit == RIdle /\ LInit

LoaderNext == \E t \in Templates : Lookup(t)

LoaderSpec == LoaderInit /\ [][LoaderNext]_vars

---------------------------------------------------------------------------
(* Properties *)

\* A call has been made and has ended.
Done == pc = "idle" /\ calls > 0

\* The positions in the log of the events of one kind.
Events(e) == {i \in DOMAIN log : log[i].ev = e}

\* The display request of the call was issued and did not raise / raised.
DisplaySucceeded == Events("display") # {} /\ exc = "none"
DisplayRaised == Events("display") # {} /\ exc = "DisplayError"

\* C1: when the display request of a jupyter call raises, the temporary file
\* is gone by the time the call ends, and the call ends by raising the display
\* request's exception.
C1_DisplayErrorReachesCallerAfterCleanup ==
    (Done /\ jupyter /\ DisplayRaised) =>
        /\ fp \notin DOMAIN fs
        /\ outcome = Raised("DisplayError")

\* C2: a jupyter call whose display request succeeds creates exactly one file,
\* new to the working directory; at the display request that file holds the
\* HTML the base renderer produces for the circuit with inline mode off; and
\* once the call has returned the file no longer exists.
C2_TempFileLifecycle ==
    (jupyter /\ DisplaySucceeded) =>
        /\ Cardinality(Events("create")) = 1
        /\ fp \in CwdPaths
        /\ fp \notin DOMAIN pre.fs
        /\ \A i \in Events("display") :
              /\ log[i].present
              /\ log[i].content = BaseRender(circuit, FALSE)
        /\ (Done /\ outcome.kind = "return") =>
              /\ fp \notin DOMAIN fs
              /\ DOMAIN fs = DOMAIN pre.fs

C2_Witness ==
    /\ Done /\ jupyter /\ DisplaySucceeded
    /\ outcome = Returned(None)
    /\ fp \notin DOMAIN fs

\* C3: however a jupyter call ends, the delay and the deletion have run for
\* the temporary file it created, so that between calls no temporary file
\* created by a call is left in the working directory.
C3_CleanupOnEveryOutcome ==
    Done =>
        /\ (jupyter /\ fp # <<>>) =>
              /\ Events("delay") # {}
              /\ Events("removed") \cup Events("remove failed") # {}
        /\ temps = {}

\* C4: a call without the jupyter flag returns the HTML of the base renderer
\* with inline mode off, and at no point of the call has a file been created,
\* a display request been issued, time been spent or a file been deleted.
C4_PlainCallIsPure ==
    (calls > 0 /\ ~jupyter) =>
        /\ fs = pre.fs
        /\ displays = pre.displays
        /\ clock = pre.clock
        /\ log = <<>>
        /\ fp = <<>>
        /\ (Done /\ Convertible(circuit)) =>
              outcome = Returned(BaseRender(circuit, FALSE))
        /\ (Done /\ ~Convertible(circuit)) => outcome = Raised("RenderError")

C4_Witness ==
    /\ Done /\ ~jupyter
    /\ outcome = Returned(BaseRender(circuit, FALSE))
    /\ DOMAIN fs # {}

\* C5: when the deletion of the temporary file fails, the call still ends the
\* way the try block left it: it raises the exception raised earlier in the
\* call if there is one, and returns if the display request succeeded.
C5_FailedDeleteMasksNothing ==
    (Done /\ Events("remove failed") # {}) =>
        IF exc # "none" THEN outcome = Raised(exc) ELSE outcome.kind = "return"

\* C6: the lookup of <<namespace, name>>, for the namespaces html and js,
\* returns the override directory's content when that directory holds the
\* name, else the base loader's content (what the base loader returns when
\* asked directly) when the base holds it, and fails with TemplateNotFound
\* exactly when both miss.
C6_FirstLinkWins ==
    \A ns \in {"html", "js"}, n \in Names :
        lookup.template = <<ns, n>> =>
            LET dir == IF ns = "html" THEN "static" ELSE "dist"
                inLocal == <<dir, n>> \in localFiles
                inBase == <<ns, n>> \in baseFiles
            IN /\ inLocal => lookup.result = <<"local", dir, n>>
               /\ (~inLocal /\ inBase) =>
                     /\ lookup.result = <<"base", ns, n>>
                     /\ lookup.result = BaseGetSource(ns, n)
               /\ (lookup.result = NotFound) <=> (~inLocal /\ ~inBase)

C6_Witness ==
    /\ lookup.template = <<"js", "1">>
    /\ <<"dist", "1">> \in localFiles
    /\ <<"js", "1">> \in baseFiles
    /\ <<"static", "1">> \notin localFiles
    /\ lookup.result = <<"local", "dist", "1">>

\* C7: where IPython.display cannot be imported, the construction of the
\* renderer succeeds, a call without the jupyter flag (of a circuit that
\* renders) returns the HTML, and a call with the flag ends by raising the
\* import's own error, raised outside the try block (no exception handling of
\* the method has run: no delay, no deletion, no file).
C7_CapabilityResolvedAtUse ==
    ~hasIPython =>
        /\ pc # "import failed"
        /\ (Done /\ Convertible(circuit) /\ ~jupyter) =>
              outcome = Returned(BaseRender(circuit, FALSE))
        /\ (Done /\ Convertible(circuit) /\ jupyter) =>
              /\ outcome = Raised("ImportError")
              /\ exc = "none"
              /\ log = <<>>
              /\ clock = pre.clock

C7_Witness ==
    /\ ~hasIPython /\ Done /\ jupyter
    /\ outcome = Raised("ImportError")

\* The events of the call itself, in order (what the environment does to the
\* file left out).
RECURSIVE OwnEvents(_)
OwnEvents(l) ==
    IF l = <<>> THEN <<>>
    ELSE IF Head(l).ev = "vanished" THEN OwnEvents(Tail(l))
         ELSE <<Head(l).ev>> \o OwnEvents(Tail(l))

IsPrefix(a, b) == Len(a) <= Len(b) /\ SubSeq(b, 1, Len(a)) = a

\* C8, the order: the events of a call are an initial part of create, write,
\* close, display, delay, delete; the display request is issued with the file
\* on disk, holding the whole HTML, and closed; the deletion is attempted no
\* sooner than the delay after the display request; the file is never deleted
\* twice.
C8_EventOrder ==
    /\ \/ IsPrefix(OwnEvents(log),
                   <<"create", "write", "close", "display", "delay", "removed">>)
       \/ IsPrefix(OwnEvents(log),
                   <<"create", "write", "close", "display", "delay", "remove failed">>)
    /\ \A i \in Events("display") :
          /\ log[i].present
          /\ log[i].content = html
          /\ ~log[i].open
    /\ \A i \in Events("display"), k \in Events("removed") \cup Events("remove failed") :
          log[k].at >= log[i].at + 5
    /\ Cardinality(Events("removed") \cup Events("vanished")) <= 1

\* C8: the order of C8_EventOrder, and the temporary file of a call that has
\* ended has been deleted exactly once (by the call or, during its delay, by
\* someone else).
C8_OrderedAndDeletedOnce ==
    /\ C8_EventOrder
    /\ (Done /\ jupyter /\ fp # <<>>) =>
          Cardinality(Events("removed") \cup Events("vanished")) = 1

\* C9: a jupyter call whose display request succeeds returns no value, never
\* the HTML; it issues one display request, and the iframe source of that
\* request is "./" and the path, relative to the working directory, of the file
\* this call created (a file that did not exist before the call).
C9_DisplaysOwnFile ==
    (Done /\ jupyter /\ DisplaySucceeded) =>
        /\ outcome.value # html
        /\ outcome.kind = "return" => outcome = Returned(None)
        /\ Cardinality(Events("display")) = 1
        /\ displays = Append(pre.displays, <<".", fp[Len(fp)]>>)
        /\ CwdPath \o Tail(displays[Len(displays)]) = fp
        /\ fp \notin DOMAIN pre.fs
        /\ Cardinality(Events("create")) = 1

C9_Witness ==
    /\ Done /\ jupyter /\ DisplaySucceeded
    /\ outcome = Returned(None)
    /\ Len(displays) = 2
    /\ DOMAIN pre.fs # {}

\* C10: in a jupyter call the HTML is generated and IPython.display is imported
\* before the temporary file is created: while the call is at either, and when
\* the call ends with the error of either, no file has been created, no
\* display request issued and no time spent.
C10_FailBeforeCreate ==
    (calls > 0 /\ jupyter /\
        \/ pc \in {"render", "import"}
        \/ Done /\ outcome \in {Raised("RenderError"), Raised("ImportError")}) =>
        /\ fp = <<>>
        /\ log = <<>>
        /\ fs = pre.fs
        /\ displays = pre.displays
        /\ clock = pre.clock

C10_Witness ==
    /\ Done /\ jupyter
    /\ outcome = Raised("ImportError")
    /\ fs = pre.fs

===========================================================================
